---- MODULE Spec2Model ----
(***************************************************************************)
(* gohfinder (src/main.go): hostnames of a CIDR block or of an ASN, scraped *)
(* from two lookup pages, aggregated into hostname -> set of IPs and        *)
(* printed.                                                                 *)
(*                                                                          *)
(* A Go string is a sequence of one-character strings, so that Split, Join, *)
(* Replace, TrimSpace and the printed lines are computed character by       *)
(* character.  A Go map is a function; the nil map and the empty map are    *)
(* both the function with the empty domain (ranging over either is a no-op).*)
(***************************************************************************)
EXTENDS Integers, Sequences, FiniteSets, TLC

\* Longest --cidr list and longest --asn list of a run.
MaxCidrs == 2
MaxAsns == 2

\* http.StatusOK
StatusOK == 200

(***************************************************************************)
(* Strings                                                                  *)
(***************************************************************************)

\* strings.Join(list, sep)
RECURSIVE Join(_, _)
Join(list, sep) ==
    IF list = <<>> THEN <<>>
    ELSE IF Len(list) = 1 THEN list[1]
    ELSE list[1] \o sep \o Join(Tail(list), sep)

\* strings.Split(s, c) for a one-character separator; Split("", c) is [""].
RECURSIVE Split(_, _)
Split(s, c) ==
    IF \E i \in 1..Len(s) : s[i] = c
    THEN LET i == CHOOSE k \in 1..Len(s) : s[k] = c /\ \A j \in 1..(k - 1) : s[j] # c
         IN  <<SubSeq(s, 1, i - 1)>> \o Split(SubSeq(s, i + 1, Len(s)), c)
    ELSE <<s>>

\* strings.Replace(cidr, "/", "-", -1)
ReplaceSlash(s) == [i \in 1..Len(s) |-> IF s[i] = "/" THEN "-" ELSE s[i]]

\* strings.TrimSpace
RECURSIVE TrimLeft(_)
TrimLeft(s) == IF s # <<>> /\ Head(s) = " " THEN TrimLeft(Tail(s)) ELSE s

RECURSIVE TrimRight(_)
TrimRight(s) ==
    IF s # <<>> /\ s[Len(s)] = " " THEN TrimRight(SubSeq(s, 1, Len(s) - 1)) ELSE s

TrimSpace(s) == TrimRight(TrimLeft(s))

\* sub occurs in s
Contains(s, sub) ==
    \E i \in 0..(Len(s) - Len(sub)) : SubSeq(s, i + 1, i + Len(sub)) = sub

\* Every enumeration of a finite set: the orders in which a Go map can be ranged.
Perms(S) ==
    {f \in [1..Cardinality(S) -> S] : \A i, j \in 1..Cardinality(S) : f[i] = f[j] => i = j}

(***************************************************************************)
(* net/http and regexp, as far as the program depends on them               *)
(***************************************************************************)

HexDigits == {"0", "1", "2", "3", "4", "5", "6", "7", "8", "9", "a", "b", "c", "d", "e", "f",
              "A", "B", "C", "D", "E", "F"}

\* http.NewRequest fails when the URL does not parse; with the fixed bases of
\* the program that is a path holding a "%" that starts no %XX escape.
BadURL(path) ==
    \E i \in 1..Len(path) :
        /\ path[i] = "%"
        /\ \/ i + 2 > Len(path)
           \/ path[i + 1] \notin HexDigits
           \/ path[i + 2] \notin HexDigits

\* regexp.Compile succeeds: the parentheses of the pattern are balanced.
RECURSIVE Balanced(_, _)
Balanced(p, depth) ==
    IF p = <<>> THEN depth = 0
    ELSE IF Head(p) = "(" THEN Balanced(Tail(p), depth + 1)
    ELSE IF Head(p) = ")" THEN depth > 0 /\ Balanced(Tail(p), depth - 1)
    ELSE Balanced(Tail(p), depth)

Compiles(p) == Balanced(p, 0)

\* re.MatchString(hostname) for a pattern of literal characters and groups:
\* unanchored, so the literal text occurs somewhere in the hostname.
MatchString(p, hostname) ==
    Contains(hostname, SelectSeq(p, LAMBDA c : c \notin {"(", ")"}))

(***************************************************************************)
(* Inputs: the command line and what the two sites answer                   *)
(***************************************************************************)

\* Sequences over S of length 1..n
Lists(S, n) == UNION {[1..k -> S] : k \in 1..n}

Comma == <<",">>

CidrItems == {<<"1", "/", "8">>, <<"2", "/", "8">>, <<"%">>}
AsnItems == {<<"A">>, <<"%">>}

\* c.String("cidr"), c.String("asn"): empty, or a comma-separated list
CidrArgs == {<<>>} \cup {Join(l, Comma) : l \in Lists(CidrItems, MaxCidrs)}
AsnArgs == {<<>>} \cup {Join(l, Comma) : l \in Lists(AsnItems, MaxAsns)}

\* c.String("filter"): none, the literal a, an unbalanced parenthesis
Filters == {<<>>, <<"a">>, <<"(">>}

\* A robtex page: its dns-lookup anchors in document order, each with the
\* suffix of its href and the suffixes of the ip-lookup anchors found under
\* its second ancestor.
CidrPageA == << [dns |-> <<"a">>, ips |-> << <<"1">> >>],
                [dns |-> <<"b">>, ips |-> << <<"1">> >>] >>
CidrPageB == << [dns |-> <<"a">>, ips |-> << <<"2">>, <<"1">> >>],
                [dns |-> <<"b">>, ips |-> <<>>] >>
CidrPageC == << [dns |-> <<"b">>, ips |-> << <<"1", " ", "2">> >>] >>
CidrPages == {CidrPageA, CidrPageB, CidrPageC}

\* A bgp.he.net page: the text of the link in the first cell of each row of
\* #table_prefixes4 (a row without a link has the empty text).
AsnPageA == << <<" ", "2", "/", "8">>, <<" ">>, <<"1", "/", "8", " ">> >>
AsnPages == {<<>>, AsnPageA}

\* What client.Do and the parser give: a transport error, or a response with
\* a status, a body that parses or not, and the page in it.
Response(err, status, parseErr, page) ==
    [err |-> err, status |-> status, parseErr |-> parseErr, page |-> page]

NoResponse == Response(TRUE, 0, FALSE, <<>>)

CidrResponses ==
    {NoResponse, Response(FALSE, 500, FALSE, CidrPageA), Response(FALSE, StatusOK, TRUE, <<>>)}
    \cup {Response(FALSE, StatusOK, FALSE, p) : p \in CidrPages}

AsnResponses ==
    {NoResponse, Response(FALSE, 500, FALSE, AsnPageA), Response(FALSE, StatusOK, TRUE, <<>>)}
    \cup {Response(FALSE, StatusOK, FALSE, p) : p \in AsnPages}

(***************************************************************************)
(* State                                                                    *)
(***************************************************************************)
VARIABLES
    cidrArg, asnArg, hosts, fqdn, filter,  \* the cli.Context
    caller,      \* "main": the program; "direct": searchASN called on its own
    pc,          \* where the process is
    mode,        \* branch of the Action: "none", "cidr", "asn"
    cidrs, cIdx, \* CIDR branch: the list and the loop position
    asns, aIdx,  \* ASN branch: the list and the loop position
    rangeList, rIdx, \* ASN branch: ranges of the current ASN and the position
    asnList, sIdx, ranges, \* searchASN: its list, loop position and result
    resp,        \* the response the running resolver holds
    open,        \* response bodies opened and not closed (by fetch number)
    res,         \* what the last searchCIDR returned
    results,     \* the aggregate, hostname -> set of IPs
    stdout,      \* lines written to standard output
    stderr,      \* the fatal message, "" when none
    exitCode,    \* -1 while running
    fetchLog,    \* history: every request sent, in order
    asnLog,      \* history: the answer to every ASN request, in order
    obtained,    \* history: the ranges searchASN returned, concatenated
    partials     \* history: the maps searchCIDR returned

vars == <<cidrArg, asnArg, hosts, fqdn, filter, caller, pc, mode, cidrs, cIdx, asns, aIdx,
          rangeList, rIdx, asnList, sIdx, ranges, resp, open, res, results, stdout, stderr,
          exitCode, fetchLog, asnLog, obtained, partials>>

ctx == <<cidrArg, asnArg, hosts, fqdn, filter, caller>>

EmptyMap == [h \in {} |-> {}]

\* One written line: the text, and beside it what the line was made of.
Line(kind, key, vals, text) == [kind |-> kind, key |-> key, vals |-> vals, text |-> text]

(***************************************************************************)
(* The resolvers' and the presenter's computations                          *)
(***************************************************************************)


\* ChooseMode with the two branches in the other order.
ChooseModeAsnFirst(cidr, asn) ==
    IF asn # <<>> THEN "asn" ELSE IF cidr # <<>> THEN "cidr" ELSE "error"

\* The branch the Action takes (main.go 44, 59, 77).
ChooseMode(cidr, asn) ==
    IF cidr # <<>> THEN "cidr" ELSE IF asn # <<>> THEN "asn" ELSE "error"


\* ASNSkipped without the status check.
ASNSkippedNoStatus(r) == r.parseErr

\* searchASN gives a response up (continue): status check, parse error.
ASNSkipped(r) == r.status # StatusOK \/ r.parseErr

\* The prefixes of a page: each row's link text trimmed, empty ones dropped.
ExtractPrefixes(page) ==
    SelectSeq([i \in 1..Len(page) |-> TrimSpace(page[i])], LAMBDA t : t # <<>>)

\* searchCIDR gives a response up (return nil).
CIDRSkipped(r) == r.status # StatusOK \/ r.parseErr

\* The IP of a dns-lookup anchor: the href of the first ip-lookup anchor under
\* its second ancestor, "" when there is none.
RowIP(row) == IF row.ips = <<>> THEN <<>> ELSE row.ips[1]

\* hostnames[h][ip] = struct{}{} for every dns-lookup anchor of the page.
RECURSIVE CollectHostnames(_, _)
CollectHostnames(page, acc) ==
    IF page = <<>> THEN acc
    ELSE LET h == Head(page).dns
             ip == RowIP(Head(page))
         IN  CollectHostnames(Tail(page),
                 [k \in DOMAIN acc \cup {h} |->
                     IF k = h
                     THEN (IF h \in DOMAIN acc THEN acc[h] ELSE {}) \cup {ip}
                     ELSE acc[k]])

\* What searchCIDR returns for a response it got.
CIDRResult(r) == IF CIDRSkipped(r) THEN EmptyMap ELSE CollectHostnames(r.page, EmptyMap)


\* BodiesAfterReturn with the Close after the status check instead of deferred.
BodiesLeakOnFailure(bodies, r) == IF r.status # StatusOK THEN bodies ELSE {}

\* The bodies still open once a resolver has returned: the deferred Close ran.
BodiesAfterReturn(bodies, r) == {}


\* MergeInto that replaces a hostname's set instead of adding to it.
MergeOverwrite(total, part) ==
    [k \in DOMAIN total \cup DOMAIN part |->
        IF k \in DOMAIN part THEN part[k] ELSE total[k]]

\* The caller's loop over res: results[k][ip] = struct{}{}.
MergeInto(total, part) ==
    [k \in DOMAIN total \cup DOMAIN part |->
        (IF k \in DOMAIN total THEN total[k] ELSE {})
        \cup (IF k \in DOMAIN part THEN part[k] ELSE {})]


\* FilterPass that lets every hostname through.
FilterPassAny(f, hostname) == TRUE

\* filter == "" || re.MatchString(hostname)
FilterPass(f, hostname) == f = <<>> \/ MatchString(f, hostname)


\* HostsResult that keeps one hostname per IP (assignment instead of insertion).
HostsResultSingle(index, f) ==
    LET kept == {h \in DOMAIN index : FilterPass(f, h)}
    IN  [ip \in UNION {index[h] : h \in kept} |->
            {CHOOSE h \in kept : ip \in index[h]}]

\* hostsResult: ip -> the hostnames that pass the filter and hold it.
HostsResult(index, f) ==
    LET kept == {h \in DOMAIN index : FilterPass(f, h)}
    IN  [ip \in UNION {index[h] : h \in kept} |-> {h \in kept : ip \in index[h]}]

\* fmt.Println(rangeEntry)
RangeLine(r) == Line("range", r, <<>>, r)

\* fmt.Printf("%s %s\n", ip, strings.Join(hostnameList, " "))
HostsLine(ip, hostnameList) ==
    Line("hosts", ip, hostnameList, ip \o <<" ">> \o Join(hostnameList, <<" ">>))

\* fmt.Println(hostname)
FqdnLine(hostname) == Line("fqdn", hostname, <<>>, hostname)


\* DefaultLine that joins the IPs with nothing between them.
DefaultLineNoSeparator(hostname, ipList) ==
    Line("default", hostname, ipList, hostname \o <<":", " ">> \o Join(ipList, <<>>))

\* fmt.Printf("%s: %s\n", hostname, strings.Join(ipList, " "))
DefaultLine(hostname, ipList) ==
    Line("default", hostname, ipList, hostname \o <<":", " ">> \o Join(ipList, <<" ">>))

\* Every sequence of lines printResults can write for a filter that compiled
\* (or none): each map is ranged in any order.
Rendered(index, h, q, f) ==
    LET keyed == IF h THEN HostsResult(index, f)
                 ELSE [k \in {k \in DOMAIN index : FilterPass(f, k)} |-> index[k]]
        LinesFor(k) ==
            IF h THEN {HostsLine(k, l) : l \in Perms(keyed[k])}
            ELSE IF q THEN {FqdnLine(k)}
            ELSE {DefaultLine(k, l) : l \in Perms(keyed[k])}
        n == Cardinality(DOMAIN keyed)
        all == UNION {LinesFor(k) : k \in DOMAIN keyed}
    IN  UNION {{out \in [1..n -> all] : \A i \in 1..n : out[i] \in LinesFor(ord[i])} :
                  ord \in Perms(DOMAIN keyed)}

\* The message log.Fatal / log.Fatalf writes.
BadRequestMsg == "Failed to create HTTP request"
BadRegexMsg == "Invalid regex pattern"
BadParamsMsg == "Invalid parameters. Please provide either -c or -a"

\* The CIDR searchCIDR is running on.
CurCIDR == IF mode = "cidr" THEN cidrs[cIdx] ELSE rangeList[rIdx]

Fetch(site, path) == [site |-> site, path |-> path]

(***************************************************************************)
(* Initial states                                                           *)
(***************************************************************************)

Idle ==
    /\ mode = "none"
    /\ cidrs = <<>> /\ cIdx = 1
    /\ asns = <<>> /\ aIdx = 1
    /\ rangeList = <<>> /\ rIdx = 1
    /\ ranges = <<>>
    /\ resp = NoResponse
    /\ open = {}
    /\ res = EmptyMap
    /\ results = EmptyMap
    /\ stdout = <<>>
    /\ stderr = ""
    /\ exitCode = -1
    /\ fetchLog = <<>>
    /\ asnLog = <<>>
    /\ obtained = <<>>
    /\ partials = {}

\* The program is started with some command line.  With --cidr given, --asn
\* is never read, so one non-empty --asn stands for all of them.
Init ==
    /\ \/ cidrArg \in CidrArgs \ {<<>>} /\ asnArg \in {<<>>, <<"A">>}
       \/ cidrArg = <<>> /\ asnArg \in AsnArgs
    /\ hosts \in BOOLEAN
    /\ fqdn \in BOOLEAN
    /\ filter \in Filters
    /\ caller = "main"
    /\ pc = "main"
    /\ asnList = <<>> /\ sIdx = 1
    /\ Idle

\* searchASN called on its own with a comma-separated list of ASNs.
InitASN ==
    /\ cidrArg = <<>>
    /\ asnArg \in AsnArgs \ {<<>>}
    /\ hosts = FALSE
    /\ fqdn = FALSE
    /\ filter = <<>>
    /\ caller = "direct"
    /\ pc = "sasn_loop"
    /\ asnList = Split(asnArg, ",") /\ sIdx = 1
    /\ Idle

(***************************************************************************)
(* main: the Action of the cli.App                                          *)
(***************************************************************************)

\* Lines 44, 45, 59, 60, 77-78 and 84-87: the branch is chosen and the list
\* split; with no branch the error goes to log.Fatal.
Main ==
    /\ pc = "main"
    /\ LET m == ChooseMode(cidrArg, asnArg)
       IN  IF m = "cidr"
           THEN /\ mode' = "cidr"
                /\ cidrs' = Split(cidrArg, ",")
                /\ pc' = "cidr_loop"
                /\ UNCHANGED <<asns, stderr, exitCode>>
           ELSE IF m = "asn"
           THEN /\ mode' = "asn"
                /\ asns' = Split(asnArg, ",")
                /\ pc' = "asn_loop"
                /\ UNCHANGED <<cidrs, stderr, exitCode>>
           ELSE /\ pc' = "fatal"
                /\ stderr' = BadParamsMsg
                /\ exitCode' = 1
                /\ UNCHANGED <<mode, cidrs, asns>>
    /\ UNCHANGED <<ctx, cIdx, aIdx, rangeList, rIdx, asnList, sIdx, ranges, resp, open, res,
                   results, stdout, fetchLog, asnLog, obtained, partials>>

\* Line 47: the next CIDR of the list is searched; after the last, line 58.
CidrLoop ==
    /\ pc = "cidr_loop"
    /\ pc' = IF cIdx <= Len(cidrs) THEN "scidr" ELSE "print"
    /\ UNCHANGED <<ctx, mode, cidrs, cIdx, asns, aIdx, rangeList, rIdx, asnList, sIdx, ranges,
                   resp, open, res, results, stdout, stderr, exitCode, fetchLog, asnLog,
                   obtained, partials>>

\* Line 62: searchASN is called on the next ASN of the list; after the last,
\* line 76.
AsnLoop ==
    /\ pc = "asn_loop"
    /\ IF aIdx <= Len(asns)
       THEN /\ asnList' = Split(asns[aIdx], ",")
            /\ sIdx' = 1
            /\ ranges' = <<>>
            /\ pc' = "sasn_loop"
       ELSE /\ pc' = "print"
            /\ UNCHANGED <<asnList, sIdx, ranges>>
    /\ UNCHANGED <<ctx, mode, cidrs, cIdx, asns, aIdx, rangeList, rIdx, resp, open, res,
                   results, stdout, stderr, exitCode, fetchLog, asnLog, obtained, partials>>

\* Line 64: the next range of the ASN is searched; after the last, the next ASN.
RangeLoop ==
    /\ pc = "range_loop"
    /\ IF rIdx <= Len(rangeList)
       THEN pc' = "scidr" /\ UNCHANGED aIdx
       ELSE pc' = "asn_loop" /\ aIdx' = aIdx + 1
    /\ UNCHANGED <<ctx, mode, cidrs, cIdx, asns, rangeList, rIdx, asnList, sIdx, ranges, resp,
                   open, res, results, stdout, stderr, exitCode, fetchLog, asnLog, obtained,
                   partials>>

\* Lines 49-56 and 66-73: what searchCIDR returned is added to results, and
\* the loop moves on.
Merge ==
    /\ pc = "merge"
    /\ results' = MergeInto(results, res)
    /\ IF mode = "cidr"
       THEN cIdx' = cIdx + 1 /\ pc' = "cidr_loop" /\ UNCHANGED rIdx
       ELSE rIdx' = rIdx + 1 /\ pc' = "range_loop" /\ UNCHANGED cIdx
    /\ UNCHANGED <<ctx, mode, cidrs, asns, aIdx, rangeList, asnList, sIdx, ranges, resp, open,
                   res, stdout, stderr, exitCode, fetchLog, asnLog, obtained, partials>>

(***************************************************************************)
(* searchCIDR                                                               *)
(***************************************************************************)

\* Lines 152-171: the request is built (log.Fatalf when that fails) and sent;
\* a transport error returns nil, otherwise the body is open and its Close
\* deferred.
SearchCIDRSend ==
    /\ pc = "scidr"
    /\ LET uri == ReplaceSlash(CurCIDR)
       IN  IF BadURL(uri)
           THEN /\ pc' = "fatal"
                /\ stderr' = BadRequestMsg
                /\ exitCode' = 1
                /\ UNCHANGED <<resp, open, res, fetchLog, partials>>
           ELSE \E r \in CidrResponses :
                    /\ fetchLog' = Append(fetchLog, Fetch("robtex", uri))
                    /\ IF r.err
                       THEN /\ res' = EmptyMap
                            /\ partials' = partials \cup {EmptyMap}
                            /\ pc' = "merge"
                            /\ UNCHANGED <<resp, open>>
                       ELSE /\ resp' = r
                            /\ open' = open \cup {Len(fetchLog) + 1}
                            /\ pc' = "scidr_resp"
                            /\ UNCHANGED <<res, partials>>
                    /\ UNCHANGED <<stderr, exitCode>>
    /\ UNCHANGED <<ctx, mode, cidrs, cIdx, asns, aIdx, rangeList, rIdx, asnList, sIdx, ranges,
                   results, stdout, asnLog, obtained>>

\* Lines 174-200: status check, parse, the anchors collected; the function
\* returns and its deferred Close runs.
SearchCIDRRead ==
    /\ pc = "scidr_resp"
    /\ res' = CIDRResult(resp)
    /\ partials' = partials \cup {CIDRResult(resp)}
    /\ open' = BodiesAfterReturn(open, resp)
    /\ resp' = NoResponse
    /\ pc' = "merge"
    /\ UNCHANGED <<ctx, mode, cidrs, cIdx, asns, aIdx, rangeList, rIdx, asnList, sIdx, ranges,
                   results, stdout, stderr, exitCode, fetchLog, asnLog, obtained>>

(***************************************************************************)
(* searchASN                                                                *)
(***************************************************************************)

\* Lines 98-114: the request for the next ASN of the list is built
\* (log.Fatalf when that fails) and sent; a transport error moves on to the
\* next ASN, otherwise the body is open and its Close deferred.
SearchASNSend ==
    /\ pc = "sasn_loop"
    /\ sIdx <= Len(asnList)
    /\ LET asn == asnList[sIdx]
       IN  IF BadURL(asn)
           THEN /\ pc' = "fatal"
                /\ stderr' = BadRequestMsg
                /\ exitCode' = 1
                /\ UNCHANGED <<sIdx, resp, open, fetchLog, asnLog>>
           ELSE \E r \in AsnResponses :
                    /\ fetchLog' = Append(fetchLog, Fetch("bgp", asn))
                    /\ asnLog' = Append(asnLog, r)
                    /\ IF r.err
                       THEN /\ sIdx' = sIdx + 1
                            /\ UNCHANGED <<pc, resp, open>>
                       ELSE /\ resp' = r
                            /\ open' = open \cup {Len(fetchLog) + 1}
                            /\ pc' = "sasn_resp"
                            /\ UNCHANGED sIdx
                    /\ UNCHANGED <<stderr, exitCode>>
    /\ UNCHANGED <<ctx, mode, cidrs, cIdx, asns, aIdx, rangeList, rIdx, asnList, ranges, res,
                   results, stdout, obtained, partials>>

\* Lines 116-146: status check and parse (continue on either); the prefixes
\* of the table are appended to ranges and then every entry of ranges is
\* printed.
SearchASNRead ==
    /\ pc = "sasn_resp"
    /\ IF ASNSkipped(resp)
       THEN UNCHANGED <<ranges, stdout>>
       ELSE LET all == ranges \o ExtractPrefixes(resp.page)
            IN  /\ ranges' = all
                /\ stdout' = stdout \o [i \in 1..Len(all) |-> RangeLine(all[i])]
    /\ sIdx' = sIdx + 1
    /\ resp' = NoResponse
    /\ pc' = "sasn_loop"
    /\ UNCHANGED <<ctx, mode, cidrs, cIdx, asns, aIdx, rangeList, rIdx, asnList, open, res,
                   results, stderr, exitCode, fetchLog, asnLog, obtained, partials>>

\* Line 148: the list is done; the deferred Closes run and ranges goes to the
\* caller (line 63 in the program).
SearchASNReturn ==
    /\ pc = "sasn_loop"
    /\ sIdx > Len(asnList)
    /\ open' = BodiesAfterReturn(open, resp)
    /\ obtained' = obtained \o ranges
    /\ IF caller = "main"
       THEN rangeList' = ranges /\ rIdx' = 1 /\ pc' = "range_loop"
       ELSE pc' = "returned" /\ UNCHANGED <<rangeList, rIdx>>
    /\ UNCHANGED <<ctx, mode, cidrs, cIdx, asns, aIdx, asnList, sIdx, ranges, resp, res,
                   results, stdout, stderr, exitCode, fetchLog, asnLog, partials>>

(***************************************************************************)
(* printResults                                                             *)
(***************************************************************************)

\* Lines 203-249: the filter is compiled (log.Fatalf when that fails), then
\* the lines of the chosen mode are written; the Action returns nil.
PrintResults ==
    /\ pc = "print"
    /\ IF filter # <<>> /\ ~Compiles(filter)
       THEN /\ pc' = "fatal"
            /\ stderr' = BadRegexMsg
            /\ exitCode' = 1
            /\ UNCHANGED stdout
       ELSE \E out \in Rendered(results, hosts, fqdn, filter) :
                /\ stdout' = stdout \o out
                /\ pc' = "done"
                /\ exitCode' = 0
                /\ UNCHANGED stderr
    /\ UNCHANGED <<ctx, mode, cidrs, cIdx, asns, aIdx, rangeList, rIdx, asnList, sIdx, ranges,
                   resp, open, res, results, fetchLog, asnLog, obtained, partials>>

(***************************************************************************)
(* Specifications                                                           *)
(***************************************************************************)

Next ==
    \/ Main
    \/ CidrLoop
    \/ AsnLoop
    \/ RangeLoop
    \/ Merge
    \/ SearchCIDRSend
    \/ SearchCIDRRead
    \/ SearchASNSend
    \/ SearchASNRead
    \/ SearchASNReturn
    \/ PrintResults

\* One run of the program.
Spec == Init /\ [][Next]_vars

NextASN ==
    \/ SearchASNSend
    \/ SearchASNRead
    \/ SearchASNReturn

\* One call of searchASN.
SpecASN == InitASN /\ [][NextASN]_vars

(***************************************************************************)
(* Properties                                                               *)
(***************************************************************************)

Range(f) == {f[i] : i \in DOMAIN f}

RECURSIVE Concat(_)
Concat(lists) == IF lists = <<>> THEN <<>> ELSE Head(lists) \o Concat(Tail(lists))

\* The requests sent to one site, in order.
PathsTo(site) ==
    LET sent == SelectSeq(fetchLog, LAMBDA f : f.site = site)
    IN  [i \in 1..Len(sent) |-> sent[i].path]

\* The lines printResults wrote (searchASN's are of kind "range").
ResultLines == SelectSeq(stdout, LAMBDA l : l.kind # "range")

\* The process has ended.
Ended == pc \in {"done", "fatal"}

\* The lookups are over: printResults is next, running or has ended the run.
LookupsOver == pc \in {"print", "done"} \/ (pc = "fatal" /\ stderr = BadRegexMsg)

InvalidFilter == filter # <<>> /\ ~Compiles(filter)

\* The index printResults renders: the hostnames the filter lets through.
FilteredIndex ==
    [h \in {k \in DOMAIN results : filter = <<>> \/ MatchString(filter, k)} |-> results[h]]

\* C1, as stated: lookups start only when exactly one of --cidr and --asn is
\* non-empty; with both empty or both non-empty the program reports "Invalid
\* parameters...", performs no lookup and exits non-zero.
C1_ExactlyOneInput ==
    pc # "main" =>
        IF (cidrArg # <<>>) # (asnArg # <<>>)
        THEN mode \in {"cidr", "asn"} /\ stderr # BadParamsMsg
        ELSE /\ pc = "fatal"
             /\ stderr = BadParamsMsg
             /\ exitCode = 1
             /\ fetchLog = <<>>

\* C1, amended: a non-empty --cidr selects the CIDR branch whatever --asn is
\* (no ASN request is ever sent then); otherwise a non-empty --asn selects the
\* ASN branch; only with both empty does the program report "Invalid
\* parameters...", perform no lookup and exit non-zero.
C1_AtLeastOneInput ==
    pc # "main" =>
        /\ cidrArg # <<>> =>
               mode = "cidr" /\ stderr # BadParamsMsg /\ PathsTo("bgp") = <<>>
        /\ (cidrArg = <<>> /\ asnArg # <<>>) => mode = "asn" /\ stderr # BadParamsMsg
        /\ (cidrArg = <<>> /\ asnArg = <<>>) =>
               /\ pc = "fatal"
               /\ stderr = BadParamsMsg
               /\ exitCode = 1
               /\ fetchLog = <<>>

\* Both lists given, the run went through the CIDR lookups and ended normally.
C1_BothGivenRan ==
    cidrArg # <<>> /\ asnArg # <<>> /\ pc = "done" /\ exitCode = 0 /\ fetchLog # <<>>

\* C2: in every run with a --filter that does not compile, nothing is ever
\* written to standard output, and the run ends by the fatal error.
C2_InvalidFilterNoOutput ==
    InvalidFilter => stdout = <<>> /\ pc # "done" /\ (Ended => exitCode = 1)

\* An ASN request that got its answer and was not given up.
Succeeded(r) == ~r.err /\ r.status = StatusOK /\ ~r.parseErr

\* C3: in the ASN branch a transport error, a non-200 status or a parse error
\* of one ASN never ends the run (the run ends early only on a request that
\* cannot be built); once the lookups are over every ASN of the list has been
\* requested, in order, and the ranges obtained are exactly the prefixes of
\* the pages of the ASNs that succeeded, each of them then searched.
C3_AsnFailSoft ==
    mode = "asn" =>
        /\ (pc = "fatal" /\ stderr # BadRegexMsg) =>
               stderr = BadRequestMsg /\ BadURL(asns[aIdx])
        /\ LookupsOver =>
               /\ PathsTo("bgp") = asns
               /\ Len(asnLog) = Len(asns)
               /\ obtained =
                      Concat([i \in 1..Len(asnLog) |->
                                 IF Succeeded(asnLog[i])
                                 THEN ExtractPrefixes(asnLog[i].page)
                                 ELSE <<>>])
               /\ PathsTo("robtex") = [i \in 1..Len(obtained) |-> ReplaceSlash(obtained[i])]

\* A failed ASN was followed by one that succeeded and gave ranges.
C3_FailedThenSucceeded ==
    /\ mode = "asn"
    /\ pc = "done"
    /\ \E i, j \in 1..Len(asnLog) :
           /\ i < j
           /\ ~Succeeded(asnLog[i])
           /\ asnLog[i].status = 500
           /\ Succeeded(asnLog[j])
    /\ obtained # <<>>

\* The hostname is in the rendered output: it is the hostname of a line, or
\* one of the hostnames of a hosts line.
Appears(hostname) ==
    \E i \in 1..Len(ResultLines) :
        IF ResultLines[i].kind = "hosts"
        THEN hostname \in Range(ResultLines[i].vals)
        ELSE ResultLines[i].key = hostname

\* C4: in each of the three modes, a hostname of the index is in the output of
\* printResults exactly when the filter matches it, and every hostname is
\* when no filter was given; the mode printed is hosts if --hosts, else fqdn
\* if --fqdn, else default.
C4_FilterCorrect ==
    pc = "done" =>
        /\ \A h \in DOMAIN results :
               Appears(h) <=> (filter = <<>> \/ MatchString(filter, h))
        /\ \A i \in 1..Len(ResultLines) :
               ResultLines[i].kind =
                   IF hosts THEN "hosts" ELSE IF fqdn THEN "fqdn" ELSE "default"

\* Hosts mode with a filter that keeps one hostname of the index and drops
\* another.
C4_FilterSplitsIndex ==
    /\ pc = "done"
    /\ hosts
    /\ filter # <<>>
    /\ \E h1, h2 \in DOMAIN results : Appears(h1) /\ ~Appears(h2)

\* C5: in hosts mode every (hostname, ip) pair of the filtered index is on the
\* line of ip, there is one line per ip, and a line holds no hostname that is
\* not in the filtered index or does not map to the line's ip; the text of
\* the line is the ip, a space, and the hostnames joined by spaces.
C5_HostsInversion ==
    (pc = "done" /\ hosts) =>
        /\ \A h \in DOMAIN FilteredIndex : \A ip \in FilteredIndex[h] :
               \E i \in 1..Len(ResultLines) :
                   ResultLines[i].key = ip /\ h \in Range(ResultLines[i].vals)
        /\ \A i \in 1..Len(ResultLines) :
               LET l == ResultLines[i]
               IN  /\ \A h \in Range(l.vals) :
                          h \in DOMAIN FilteredIndex /\ l.key \in FilteredIndex[h]
                   /\ l.text = l.key \o <<" ">> \o Join(l.vals, <<" ">>)
                   /\ \A j \in 1..Len(ResultLines) : ResultLines[j].key = l.key => j = i

\* Hosts mode printed a line with two hostnames for one ip.
C5_SharedIp ==
    /\ pc = "done"
    /\ hosts
    /\ \E i \in 1..Len(ResultLines) : Len(ResultLines[i].vals) >= 2

\* The partial results merged one after the other, from the empty index.
RECURSIVE MergeAll(_)
MergeAll(parts) ==
    IF parts = <<>> THEN EmptyMap
    ELSE MergeInto(MergeAll(SubSeq(parts, 1, Len(parts) - 1)), parts[Len(parts)])

\* C6: once the lookups are over, every hostname's set in results is the
\* union of its sets in the maps searchCIDR returned; merging those maps in
\* any order gives results, and so does merging any of them once more.
C6_MergeIsUnion ==
    LookupsOver =>
        /\ DOMAIN results = UNION {DOMAIN p : p \in partials}
        /\ \A h \in DOMAIN results :
               results[h] = UNION {p[h] : p \in {q \in partials : h \in DOMAIN q}}
        /\ \A ord \in Perms(partials) : MergeAll(ord) = results
        /\ \A p \in partials : MergeInto(results, p) = results

\* Two different maps held the same hostname with different IPs.
C6_HostnameInTwoPartials ==
    /\ pc = "done"
    /\ \E p, q \in partials : \E h \in DOMAIN p \cap DOMAIN q : p[h] # q[h]

\* A default-mode line read back: the hostname is what precedes the first
\* ": ", the IPs are the fields of the rest between single spaces.
ParseDefault(text) ==
    LET cut == CHOOSE i \in 1..Len(text) :
                   /\ i < Len(text) /\ text[i] = ":" /\ text[i + 1] = " "
                   /\ \A j \in 1..(i - 1) : ~(text[j] = ":" /\ text[j + 1] = " ")
    IN  [hostname |-> SubSeq(text, 1, cut - 1),
         ips |-> Range(Split(SubSeq(text, cut + 2, Len(text)), " "))]

\* The mapping read back from the lines of a default-mode output.
Reparsed(lines) ==
    [h \in {ParseDefault(lines[i].text).hostname : i \in 1..Len(lines)} |->
        UNION {ParseDefault(lines[i].text).ips :
                   i \in {j \in 1..Len(lines) : ParseDefault(lines[j].text).hostname = h}}]

\* No hostname and no IP of the index holds a space.
NoSpaces(index) ==
    \A h \in DOMAIN index :
        /\ " " \notin Range(h)
        /\ \A ip \in index[h] : " " \notin Range(ip)

\* C7, as stated: for every index the program can build, the default-mode
\* output read back line by line is the filtered index.
C7_RoundTrip ==
    (pc = "done" /\ ~hosts /\ ~fqdn) => Reparsed(ResultLines) = FilteredIndex

\* C7, amended: the same for every index whose hostnames and IPs hold no
\* space, the empty-string IP included.
C7_RoundTripNoSpaces ==
    (pc = "done" /\ ~hosts /\ ~fqdn /\ NoSpaces(results)) =>
        Reparsed(ResultLines) = FilteredIndex

\* Default mode printed a hostname with the empty-string IP beside another IP,
\* and a hostname with two non-empty IPs.
C7_EmptyIpPrinted ==
    /\ pc = "done" /\ ~hosts /\ ~fqdn
    /\ NoSpaces(results)
    /\ \E h \in DOMAIN FilteredIndex :
           <<>> \in results[h] /\ Cardinality(results[h]) >= 2
    /\ \E h \in DOMAIN FilteredIndex :
           <<>> \notin results[h] /\ Cardinality(results[h]) >= 2

\* C8: when a call of searchASN returns, the prefixes it printed are, in
\* order, the prefixes it returns.
C8_TraceEqualsReturn ==
    pc = "returned" => [i \in 1..Len(stdout) |-> stdout[i].text] = ranges

\* C9: when a run has ended, one CIDR request was sent per entry of the --cidr
\* list, in list order; in the ASN branch one request per ASN and one CIDR
\* request per range searchASN returned; and no request is sent while the
\* answer to an earlier one is still being read.
C9_OneFetchPerItem ==
    /\ (Ended /\ mode = "cidr") =>
           fetchLog = [i \in 1..Len(cidrs) |-> Fetch("robtex", ReplaceSlash(cidrs[i]))]
    /\ (Ended /\ mode = "asn") =>
           /\ PathsTo("bgp") = asns
           /\ PathsTo("robtex") = [i \in 1..Len(obtained) |-> ReplaceSlash(obtained[i])]
    /\ pc \in {"scidr", "sasn_loop"} => resp = NoResponse

\* C10: outside the two resolvers no response body is open.
C10_BodiesClosed ==
    pc \in {"cidr_loop", "asn_loop", "range_loop", "merge", "print", "done"} => open = {}

\* searchCIDR has returned a page it read, and later searchASN has returned
\* after a non-200 answer: bodies were opened on both paths and none is open.
C10_ReturnedAfterFailure ==
    /\ pc = "range_loop"
    /\ \E p \in partials : p # EmptyMap
    /\ asnLog # <<>>
    /\ ~asnLog[Len(asnLog)].err
    /\ asnLog[Len(asnLog)].status = 500
    /\ open = {}

====
